---- MODULE Spec2Model ----
(***************************************************************************)
(* State-machine model of cli_clock.py: argument dispatch in main, the     *)
(* four modes (clock, stopwatch, timer, Pomodoro), the countdown engine,   *)
(* the InputHandler context manager and the duration parser.               *)
(*                                                                         *)
(* Strings are sequences of one-character strings.  Time is an integer     *)
(* number of clock units, UnitsPerSec units to the second.                 *)
(***************************************************************************)
EXTENDS Integers, Sequences, FiniteSets, TLC

\* ------------------------------------------------------------------------
\* Bounds of the model
\* ------------------------------------------------------------------------
MaxParts == 4
MaxTotal == 3
MaxExtraFrames == 2
MaxSession == 2
MaxSeconds == 4
UnitsPerSec == 2
MaxTime == MaxSeconds * UnitsPerSec
MaxFormatSeconds == 3700
MaxChars == 3

\* ------------------------------------------------------------------------
\* Strings and Python's int()
\* ------------------------------------------------------------------------
Digits == {"0", "1", "2", "3", "4", "5", "6", "7", "8", "9"}

DigitVal(c) ==
    CASE c = "0" -> 0 [] c = "1" -> 1 [] c = "2" -> 2 [] c = "3" -> 3
      [] c = "4" -> 4 [] c = "5" -> 5 [] c = "6" -> 6 [] c = "7" -> 7
      [] c = "8" -> 8 [] c = "9" -> 9

\* the characters int() skips at either end of a string: blank, tab, line
\* feed, carriage return, form feed, vertical tab (character 11), next line
\* (character 133) and no-break space (character 160); the last three are
\* written raw, as they have no escape.  The file, group, record and unit
\* separators (28..31) are not skipped.  The spaces beyond character 255,
\* which int() skips as well, cannot be written in a string here.
Whitespace == {" ", "\t", "\n", "\r", "\f", "", "", " "}

\* s with leading and trailing whitespace removed, as int() does
RECURSIVE Strip(_)
Strip(s) ==
    IF s = <<>> THEN s
    ELSE IF Head(s) \in Whitespace THEN Strip(Tail(s))
    ELSE IF s[Len(s)] \in Whitespace THEN Strip(SubSeq(s, 1, Len(s) - 1))
    ELSE s

\* an int() literal body: digits, with single underscores between digits
DigitBody(s) ==
    /\ Len(s) > 0
    /\ \A i \in 1..Len(s) : s[i] \in Digits \cup {"_"}
    /\ s[1] # "_"
    /\ s[Len(s)] # "_"
    /\ \A i \in 1..(Len(s) - 1) : ~(s[i] = "_" /\ s[i + 1] = "_")

RECURSIVE DecValue(_)
DecValue(s) ==
    IF s = <<>> THEN 0
    ELSE IF s[Len(s)] = "_" THEN DecValue(SubSeq(s, 1, Len(s) - 1))
    ELSE 10 * DecValue(SubSeq(s, 1, Len(s) - 1)) + DigitVal(s[Len(s)])

\* Python int(str): ok = FALSE stands for ValueError
PyInt(s) ==
    LET t == Strip(s)
        signed == Len(t) > 0 /\ t[1] \in {"+", "-"}
        body == IF signed THEN Tail(t) ELSE t
    IN  IF DigitBody(body)
        THEN [ok |-> TRUE,
              v |-> IF signed /\ t[1] = "-" THEN 0 - DecValue(body) ELSE DecValue(body)]
        ELSE [ok |-> FALSE, v |-> 0]

\* Python str.split(sep): always at least one part
RECURSIVE Split(_, _)
Split(s, sep) ==
    IF \A i \in 1..Len(s) : s[i] # sep
    THEN <<s>>
    ELSE LET k == CHOOSE i \in 1..Len(s) :
                      s[i] = sep /\ \A j \in 1..(i - 1) : s[j] # sep
         IN  <<SubSeq(s, 1, k - 1)>> \o Split(SubSeq(s, k + 1, Len(s)), sep)

RECURSIVE Join(_, _)
Join(ps, sep) ==
    IF Len(ps) = 0 THEN <<>>
    ELSE IF Len(ps) = 1 THEN ps[1]
    ELSE ps[1] \o <<sep>> \o Join(Tail(ps), sep)

\* variant: the minutes of a two-part duration are not scaled
parse_duration_unscaled(duration_str) ==
    LET parts == Split(duration_str, ":")
        n == [i \in 1..Len(parts) |-> PyInt(parts[i])]
        bad == [ok |-> FALSE, v |-> 0]
    IN  IF Len(parts) = 1
        THEN IF n[1].ok THEN [ok |-> TRUE, v |-> n[1].v] ELSE bad
        ELSE IF Len(parts) = 2
        THEN IF n[1].ok /\ n[2].ok
             THEN [ok |-> TRUE, v |-> n[1].v + n[2].v] ELSE bad
        ELSE IF Len(parts) = 3
        THEN IF n[1].ok /\ n[2].ok /\ n[3].ok
             THEN [ok |-> TRUE, v |-> n[1].v * 3600 + n[2].v * 60 + n[3].v] ELSE bad
        ELSE bad

\* parse_duration: ok = FALSE stands for the ValueError it raises
parse_duration(duration_str) ==
    LET parts == Split(duration_str, ":")
        n == [i \in 1..Len(parts) |-> PyInt(parts[i])]
        bad == [ok |-> FALSE, v |-> 0]
    IN  IF Len(parts) = 1
        THEN IF n[1].ok THEN [ok |-> TRUE, v |-> n[1].v] ELSE bad
        ELSE IF Len(parts) = 2
        THEN IF n[1].ok /\ n[2].ok
             THEN [ok |-> TRUE, v |-> n[1].v * 60 + n[2].v] ELSE bad
        ELSE IF Len(parts) = 3
        THEN IF n[1].ok /\ n[2].ok /\ n[3].ok
             THEN [ok |-> TRUE, v |-> n[1].v * 3600 + n[2].v * 60 + n[3].v] ELSE bad
        ELSE bad

\* map(int, spec.split(',')) unpacked into two names; both must be positive
parse_pomodoro(spec) ==
    LET parts == Split(spec, ",")
        bad == [ok |-> FALSE, work |-> 0, brk |-> 0]
    IN  IF Len(parts) # 2 THEN bad
        ELSE LET w == PyInt(parts[1])
                 b == PyInt(parts[2])
             IN  IF ~(w.ok /\ b.ok) THEN bad
                 ELSE IF w.v <= 0 \/ b.v <= 0 THEN bad
                 ELSE [ok |-> TRUE, work |-> w.v, brk |-> b.v]

\* ------------------------------------------------------------------------
\* format_time
\* ------------------------------------------------------------------------
DigitChar(d) ==
    CASE d = 0 -> "0" [] d = 1 -> "1" [] d = 2 -> "2" [] d = 3 -> "3"
      [] d = 4 -> "4" [] d = 5 -> "5" [] d = 6 -> "6" [] d = 7 -> "7"
      [] d = 8 -> "8" [] d = 9 -> "9"

\* the decimal digits of n >= 0, without padding
RECURSIVE Decimal(_)
Decimal(n) ==
    IF n < 10 THEN <<DigitChar(n)>>
    ELSE Decimal(n \div 10) \o <<DigitChar(n % 10)>>

\* f"{n:02d}" for n >= 0: at least two digits, padded with a zero
Pad2(n) == IF n < 10 THEN <<"0">> \o Decimal(n) ELSE Decimal(n)

\* variant: the minutes are not reduced modulo the hour
format_time_whole_minutes(secs_in) ==
    LET hours == secs_in \div 3600
        minutes == secs_in \div 60
        secs == secs_in % 60
    IN  IF hours > 0
        THEN Pad2(hours) \o <<":">> \o Pad2(minutes) \o <<":">> \o Pad2(secs)
        ELSE Pad2(minutes) \o <<":">> \o Pad2(secs)

\* format_time(seconds), for seconds >= 0
format_time(secs_in) ==
    LET hours == secs_in \div 3600
        minutes == (secs_in % 3600) \div 60
        secs == secs_in % 60
    IN  IF hours > 0
        THEN Pad2(hours) \o <<":">> \o Pad2(minutes) \o <<":">> \o Pad2(secs)
        ELSE Pad2(minutes) \o <<":">> \o Pad2(secs)

\* ------------------------------------------------------------------------
\* Display.print_time: the glyph tables and the rows built from them.  A row
\* is a sequence of cells, one per character; the box-drawing characters
\* are named l.. (light) and d.. (double) followed by the directions of
\* their strokes (h, v, dr, dl, ur, ul, vr, vl, uh), "dot" is the bullet of
\* the colon.
\* ------------------------------------------------------------------------
SEGMENTS ==
    "0" :> << <<"ldr", "lh", "lh", "lh", "ldl">>,
            <<"lv", " ", " ", " ", "lv">>,
            <<"lv", " ", " ", " ", "lv">>,
            <<"lur", "lh", "lh", "lh", "lul">> >>
    @@ "1" :> << <<" ", " ", " ", " ", "ldl">>,
               <<" ", " ", " ", " ", "lv">>,
               <<" ", " ", " ", " ", "lv">>,
               <<" ", " ", " ", " ", "luh">> >>
    @@ "2" :> << <<"ldr", "lh", "lh", "lh", "ldl">>,
               <<" ", " ", " ", " ", "lv">>,
               <<"ldr", "lh", "lh", "lh", "lul">>,
               <<"lur", "lh", "lh", "lh", "lul">> >>
    @@ "3" :> << <<"ldr", "lh", "lh", "lh", "ldl">>,
               <<" ", " ", " ", " ", "lv">>,
               <<" ", " ", "lh", "lh", "lvl">>,
               <<"lur", "lh", "lh", "lh", "lul">> >>
    @@ "4" :> << <<"ldl", " ", " ", " ", "ldl">>,
               <<"lur", "lh", "lh", "lh", "lvl">>,
               <<" ", " ", " ", " ", "lv">>,
               <<" ", " ", " ", " ", "lul">> >>
    @@ "5" :> << <<"ldr", "lh", "lh", "lh", "ldl">>,
               <<"lur", "lh", "lh", "lh", "ldl">>,
               <<"ldr", " ", " ", " ", "lv">>,
               <<"lur", "lh", "lh", "lh", "lul">> >>
    @@ "6" :> << <<"ldr", "lh", "lh", "lh", "ldl">>,
               <<"lvr", "lh", "lh", "lh", "ldl">>,
               <<"lv", " ", " ", " ", "lv">>,
               <<"lur", "lh", "lh", "lh", "lul">> >>
    @@ "7" :> << <<"ldr", "lh", "lh", "lh", "ldl">>,
               <<" ", " ", " ", " ", "lv">>,
               <<" ", " ", " ", " ", "lv">>,
               <<" ", " ", " ", " ", "lul">> >>
    @@ "8" :> << <<"ldr", "lh", "lh", "lh", "ldl">>,
               <<"lvr", "lh", "lh", "lh", "lvl">>,
               <<"lv", " ", " ", " ", "lv">>,
               <<"lur", "lh", "lh", "lh", "lul">> >>
    @@ "9" :> << <<"ldr", "lh", "lh", "lh", "ldl">>,
               <<"lur", "lh", "lh", "lh", "lvl">>,
               <<" ", " ", " ", " ", "lv">>,
               <<" ", " ", " ", " ", "lul">> >>
    @@ ":" :> << <<" ">>,
               <<"dot">>,
               <<"dot">>,
               <<" ">> >>
    @@ " " :> << <<" ", " ", " ", " ", " ">>,
               <<" ", " ", " ", " ", " ">>,
               <<" ", " ", " ", " ", " ">>,
               <<" ", " ", " ", " ", " ">> >>

SEGMENTS_BOLD ==
    "0" :> << <<"ddr", "dh", "dh", "dh", "dh", "dh", "ddl">>,
            <<"dv", " ", " ", " ", " ", " ", "dv">>,
            <<"dv", " ", " ", " ", " ", " ", "dv">>,
            <<"dur", "dh", "dh", "dh", "dh", "dh", "dul">> >>
    @@ "1" :> << <<" ", " ", " ", " ", " ", " ", "dv">>,
               <<" ", " ", " ", " ", " ", " ", "dv">>,
               <<" ", " ", " ", " ", " ", " ", "dv">>,
               <<" ", " ", " ", " ", " ", " ", "dv">> >>
    @@ "2" :> << <<"ddr", "dh", "dh", "dh", "dh", "dh", "ddl">>,
               <<" ", " ", " ", " ", " ", " ", "dv">>,
               <<"ddr", "dh", "dh", "dh", "dh", "dh", "dul">>,
               <<"dur", "dh", "dh", "dh", "dh", "dh", "dul">> >>
    @@ "3" :> << <<"ddr", "dh", "dh", "dh", "dh", "dh", "ddl">>,
               <<" ", " ", " ", " ", " ", " ", "dv">>,
               <<" ", "dh", "dh", "dh", "dh", "dh", "dvl">>,
               <<"dur", "dh", "dh", "dh", "dh", "dh", "dul">> >>
    @@ "4" :> << <<"ddl", " ", " ", " ", " ", " ", "dv">>,
               <<"dv", " ", " ", " ", " ", " ", "dv">>,
               <<"dur", "dh", "dh", "dh", "dh", "dh", "dvl">>,
               <<" ", " ", " ", " ", " ", " ", "dv">> >>
    @@ "5" :> << <<"ddr", "dh", "dh", "dh", "dh", "dh", "ddl">>,
               <<"dv", " ", " ", " ", " ", " ", " ">>,
               <<"dur", "dh", "dh", "dh", "dh", "dh", "ddl">>,
               <<"dur", "dh", "dh", "dh", "dh", "dh", "dul">> >>
    @@ "6" :> << <<"ddr", "dh", "dh", "dh", "dh", "dh", "ddl">>,
               <<"dv", " ", " ", " ", " ", " ", " ">>,
               <<"dvr", "dh", "dh", "dh", "dh", "dh", "ddl">>,
               <<"dur", "dh", "dh", "dh", "dh", "dh", "dul">> >>
    @@ "7" :> << <<"ddr", "dh", "dh", "dh", "dh", "dh", "ddl">>,
               <<" ", " ", " ", " ", " ", " ", "dv">>,
               <<" ", " ", " ", " ", " ", " ", "dv">>,
               <<" ", " ", " ", " ", " ", " ", "dv">> >>
    @@ "8" :> << <<"ddr", "dh", "dh", "dh", "dh", "dh", "ddl">>,
               <<"dv", " ", " ", " ", " ", " ", "dv">>,
               <<"dvr", "dh", "dh", "dh", "dh", "dh", "dvl">>,
               <<"dur", "dh", "dh", "dh", "dh", "dh", "dul">> >>
    @@ "9" :> << <<"ddr", "dh", "dh", "dh", "dh", "dh", "ddl">>,
               <<"dv", " ", " ", " ", " ", " ", "dv">>,
               <<"dur", "dh", "dh", "dh", "dh", "dh", "dvl">>,
               <<"dur", "dh", "dh", "dh", "dh", "dh", "dul">> >>
    @@ ":" :> << <<" ">>,
               <<"dot">>,
               <<"dot">>,
               <<" ">> >>
    @@ " " :> << <<" ", " ", " ", " ", " ", " ", " ">>,
               <<" ", " ", " ", " ", " ", " ", " ">>,
               <<" ", " ", " ", " ", " ", " ", " ">>,
               <<" ", " ", " ", " ", " ", " ", " ">> >>

\* variant: a character that is not in the table is drawn as a blank glyph
print_time_blank_unknown(str, isBold) ==
    LET segments == IF isBold THEN SEGMENTS_BOLD ELSE SEGMENTS
        RECURSIVE Build(_, _)
        Build(rest, acc) ==
            IF rest = <<>> THEN acc
            ELSE LET char == IF Head(rest) \in DOMAIN segments THEN Head(rest) ELSE " "
                 IN  Build(Tail(rest),
                           [i \in 1..4 |-> acc[i] \o segments[char][i] \o <<" ">>])
    IN  Build(str, [i \in 1..4 |-> <<>>])

\* the lines print_time builds from time_str before it prints them
print_time(str, isBold) ==
    LET segments == IF isBold THEN SEGMENTS_BOLD ELSE SEGMENTS
        RECURSIVE Build(_, _)
        Build(rest, acc) ==
            IF rest = <<>> THEN acc
            ELSE LET char == Head(rest)
                 IN  Build(Tail(rest),
                           IF char \in DOMAIN segments
                           THEN [i \in 1..4 |-> acc[i] \o segments[char][i] \o <<" ">>]
                           ELSE acc)
    IN  Build(str, [i \in 1..4 |-> <<>>])

\* ------------------------------------------------------------------------
\* Program state
\* ------------------------------------------------------------------------
VARIABLES
    args,            \* argparse namespace: white, black, no_bell, focus, bold, pomodoro, stopwatch, timer
    pc,              \* position of the program
    mode,            \* mode function that is running
    term,            \* terminal settings in force
    term0,           \* terminal settings at process start
    old_settings,    \* InputHandler.old_settings
    switched,        \* tty.setcbreak has been applied by InputHandler.__enter__
    raising,         \* a KeyboardInterrupt is propagating through the with block
    sigint,          \* "none" or "delivered"
    exit_code,       \* -1 while running, else the process exit status
    bells,           \* number of times ring_bell was called
    session,         \* pomodoro_mode: session
    phase,           \* which countdown the Pomodoro loop is at: "Work" or "Break"
    events,          \* history of countdown starts/completions, bells, delays, increments
    total_seconds,   \* countdown_timer: total_seconds
    remaining,       \* countdown_timer: remaining
    paused,          \* paused (countdown_timer, stopwatch_mode)
    first_iteration, \* first_iteration (countdown_timer, stopwatch_mode)
    key,             \* key returned by get_key, until the tick has handled it
    got_key,         \* history: some get_key of the running loop returned a character
    nframes,         \* number of frames rendered by the running loop (saturating)
    shown,           \* time value of the last rendered frame, -1 before the first
    shown_paused,    \* paused indication of the last rendered frame
    progress,        \* progress fraction of the last rendered frame, num/den
    cd_result,       \* "none", "completed" (returned False), "interrupted" (returned True)
    now,             \* wall clock, in clock units
    start_time,      \* stopwatch_mode: start_time
    pause_start,     \* stopwatch_mode: pause_start
    elapsed,         \* stopwatch_mode: elapsed
    start0,          \* history: time of the start or of the last reset
    paused_total,    \* history: total duration of the pauses completed since start0
    reset_seen,      \* history: key 'r' has been processed
    reset_tick,      \* history: the current tick processed key 'r'
    read_gap,        \* clock units gone by since this tick's key handling read the clock
    printed,         \* number of terminal lines the last frame printed
    moved,           \* number of lines the cursor was moved up before the last frame
    tick_steps,      \* history: the steps of the current tick, in order
    seconds,         \* input of the format_time harness
    parts_in,        \* history: the parts duration_str was joined from
    duration_str,    \* input of the parse_duration harness
    result,          \* result of the parse_duration harness
    time_str,        \* input of the print_time harness
    lines            \* print_time: lines

ioVars == <<args, pc, mode, sigint, exit_code, key>>
termVars == <<term, term0, old_settings, switched, raising>>
pomVars == <<bells, session, phase, events>>
cdVars == <<total_seconds, remaining, cd_result, progress>>
loopVars == <<paused, first_iteration, got_key, nframes, shown, shown_paused>>
swVars == <<now, start_time, pause_start, elapsed, start0, paused_total, reset_seen,
            reset_tick, read_gap>>
dispVars == <<printed, moved, tick_steps>>
glyphVars == <<time_str, lines>>
parseVars == <<seconds, parts_in, duration_str, result>>
vars == <<ioVars, termVars, pomVars, cdVars, loopVars, swVars, parseVars, dispVars,
          glyphVars>>

\* ------------------------------------------------------------------------
\* Inputs
\* ------------------------------------------------------------------------
None == [given |-> FALSE, s |-> <<>>]
Opt(str) == [given |-> TRUE, s |-> str]
\* Python truthiness of an optional string argument
Truthy(a) == a.given /\ Len(a.s) > 0

Keys == {"none", "q", "r", "x"}

Cooked == [icanon |-> TRUE, echo |-> TRUE]
CookedNoEcho == [icanon |-> TRUE, echo |-> FALSE]
InitialTermSettings == {Cooked, CookedNoEcho}

TimerArgs ==
    { <<"2">>, <<"0", ":", "0", "3">>, <<"0">>, <<"x">>, <<"-", "1">>,
      <<"1", ":", "x">>, <<"0", ":", "0", ":", "0", ":", "1">>, <<>>,
      <<"\t", "1">> }

PomodoroArgs ==
    { <<"1", ",", "1">>, <<"0", ",", "1">>, <<"1", ",", "-", "1">>,
      <<"1", ",", "x">>, <<"1">>, <<"1", ",", "1", ",", "1">>,
      <<"1", ".", "5", ",", "1">> }

\* mode selections that end at once or run a short loop
LightModeArgs ==
    {[pomodoro |-> None, stopwatch |-> FALSE, timer |-> None],
     [pomodoro |-> Opt(<<"1", ",", "x">>), stopwatch |-> TRUE, timer |-> Opt(<<"2">>)],
     [pomodoro |-> Opt(<<>>), stopwatch |-> FALSE, timer |-> Opt(<<"x">>)]}
    \cup {[pomodoro |-> None, stopwatch |-> FALSE, timer |-> Opt(t)] : t \in TimerArgs}
    \cup {[pomodoro |-> Opt(p), stopwatch |-> FALSE, timer |-> None] :
             p \in PomodoroArgs \ {<<"1", ",", "1">>}}

StopwatchArgs == [pomodoro |-> None, stopwatch |-> TRUE, timer |-> None]
PomodoroRunArgs == [pomodoro |-> Opt(<<"1", ",", "1">>), stopwatch |-> FALSE, timer |-> None]

NoFlags == [white |-> FALSE, black |-> FALSE, no_bell |-> FALSE, focus |-> FALSE]
NoBell == [white |-> FALSE, black |-> FALSE, no_bell |-> TRUE, focus |-> FALSE]
WhiteAndBlack == [white |-> TRUE, black |-> TRUE, no_bell |-> FALSE, focus |-> FALSE]
WhiteFocus == [white |-> TRUE, black |-> FALSE, no_bell |-> FALSE, focus |-> TRUE]

Namespace(f, m) ==
    [white |-> f.white, black |-> f.black, no_bell |-> f.no_bell, focus |-> f.focus,
     bold |-> FALSE, pomodoro |-> m.pomodoro, stopwatch |-> m.stopwatch, timer |-> m.timer]

\* the command lines of the model
ArgSet ==
    {Namespace(f, m) : f \in {NoFlags, NoBell, WhiteAndBlack, WhiteFocus}, m \in LightModeArgs}
    \cup {Namespace(f, StopwatchArgs) : f \in {NoFlags, WhiteAndBlack}}
    \cup {Namespace(f, PomodoroRunArgs) : f \in {NoFlags, NoBell, WhiteAndBlack}}

\* ClockConfig built by main
bell_enabled == ~args.no_bell
focus == args.focus

NoEvents == <<>>
Ev(e, ph, s) == [e |-> e, ph |-> ph, s |-> s]
NoProgress == [num |-> 0, den |-> 1]

\* values of the locals before the code assigns them
InitLocals ==
    /\ raising = FALSE
    /\ sigint = "none"
    /\ exit_code = -1
    /\ bells = 0
    /\ session = 0
    /\ phase = "none"
    /\ events = NoEvents
    /\ remaining = 0
    /\ paused = FALSE
    /\ first_iteration = TRUE
    /\ key = "none"
    /\ got_key = FALSE
    /\ nframes = 0
    /\ shown = -1
    /\ shown_paused = FALSE
    /\ progress = NoProgress
    /\ cd_result = "none"
    /\ start_time = 0
    /\ pause_start = 0
    /\ elapsed = 0
    /\ start0 = 0
    /\ paused_total = 0
    /\ reset_seen = FALSE
    /\ reset_tick = FALSE
    /\ read_gap = 0
    /\ printed = 0
    /\ moved = 0
    /\ tick_steps = <<>>
    /\ result = [ok |-> FALSE, v |-> 0]
    /\ lines = <<>>

\* the process starts in main with a parsed command line
Init ==
    /\ args \in ArgSet
    /\ pc = "main"
    /\ mode = "none"
    /\ term0 \in InitialTermSettings
    /\ term = term0
    /\ old_settings = term0
    /\ switched = FALSE
    /\ total_seconds = 0
    /\ seconds = 0
    /\ parts_in = <<>>
    /\ duration_str = <<>>
    /\ time_str = <<>>
    /\ now = 0
    /\ InitLocals

\* ------------------------------------------------------------------------
\* main
\* ------------------------------------------------------------------------
Exit(code) ==
    /\ pc' = "exited"
    /\ exit_code' = code

Main ==
    /\ pc = "main"
    /\ IF args.white /\ args.black
       THEN Exit(1) /\ UNCHANGED mode
       ELSE IF Truthy(args.pomodoro)
       THEN IF parse_pomodoro(args.pomodoro.s).ok
            THEN /\ mode' = "pomodoro"
                 /\ pc' = "pm_start"
                 /\ UNCHANGED exit_code
            ELSE Exit(1) /\ UNCHANGED mode
       ELSE IF args.stopwatch
       THEN mode' = "stopwatch" /\ pc' = "sw_clear" /\ UNCHANGED exit_code
       ELSE IF Truthy(args.timer)
       THEN mode' = "timer" /\ pc' = "tm_parse" /\ UNCHANGED exit_code
       ELSE mode' = "clock" /\ pc' = "clk_clear" /\ UNCHANGED exit_code
    /\ UNCHANGED <<args, sigint, key, termVars, pomVars, cdVars, loopVars,
                   swVars, parseVars, dispVars, glyphVars>>

\* the mode function returned to main without an exception: main falls off
\* its end and the interpreter exits with status 0
MainReturn ==
    /\ pc = "main_ret"
    /\ Exit(0)
    /\ UNCHANGED <<args, mode, sigint, key, termVars, pomVars, cdVars, loopVars,
                   swVars, parseVars, dispVars, glyphVars>>

\* ------------------------------------------------------------------------
\* InputHandler
\* ------------------------------------------------------------------------
\* where the body of the with block starts, for each mode
WithBody(m) ==
    CASE m = "stopwatch" -> "sw_setup"
      [] m = "timer" -> "cd_init"
      [] m = "pomodoro" -> "pm_clear"

\* where control goes when the with block is left without an exception
AfterWith(m) ==
    CASE m = "stopwatch" -> "main_ret"
      [] m = "timer" -> "tm_bell"
      [] m = "pomodoro" -> "main_ret"

\* tty.setcbreak: ECHO and ICANON cleared
SetCbreak(t) == [t EXCEPT !.icanon = FALSE, !.echo = FALSE]
\* attr[3] & ~ECHO
ClearEcho(t) == [t EXCEPT !.echo = FALSE]

\* __init__: old_settings = termios.tcgetattr(fd)
IhInit ==
    /\ pc = "ih_init"
    /\ old_settings' = term
    /\ pc' = "ih_enter_cbreak"
    /\ UNCHANGED <<args, mode, sigint, exit_code, key, term, term0, switched,
                   raising, pomVars, cdVars, loopVars, swVars, parseVars, dispVars, glyphVars>>

\* __enter__, first statement: tty.setcbreak(self.fd)
IhEnterCbreak ==
    /\ pc = "ih_enter_cbreak"
    /\ term' = SetCbreak(term)
    /\ switched' = TRUE
    /\ pc' = "ih_enter_noecho"
    /\ UNCHANGED <<args, mode, sigint, exit_code, key, term0, old_settings,
                   raising, pomVars, cdVars, loopVars, swVars, parseVars, dispVars, glyphVars>>

\* __enter__, rest: clear ECHO, tcsetattr, return self; the with body starts
IhEnterNoEcho ==
    /\ pc = "ih_enter_noecho"
    /\ term' = ClearEcho(term)
    /\ pc' = WithBody(mode)
    /\ phase' = IF mode = "pomodoro" THEN "Work" ELSE phase
    /\ UNCHANGED <<args, mode, sigint, exit_code, key, term0, old_settings,
                   switched, raising, bells, session, events, cdVars, loopVars,
                   swVars, parseVars, dispVars, glyphVars>>

\* __exit__: restore old_settings; a propagating exception goes on to main,
\* which does not catch KeyboardInterrupt, so the process dies of it
IhExit ==
    /\ pc = "ih_exit"
    /\ term' = old_settings
    /\ IF raising
       THEN Exit(130)
       ELSE pc' = AfterWith(mode) /\ UNCHANGED exit_code
    /\ UNCHANGED <<args, mode, sigint, key, term0, old_settings, switched,
                   raising, pomVars, cdVars, loopVars, swVars, parseVars, dispVars, glyphVars>>

\* ------------------------------------------------------------------------
\* Display: the number of terminal lines each call prints, on a terminal
\* wide enough that no line wraps
\* ------------------------------------------------------------------------
DISPLAY_LINES_TIME_ONLY == 5
DISPLAY_LINES_WITH_LABEL == 7
DISPLAY_LINES_FOCUS_WITH_BAR == 8
DISPLAY_LINES_WITH_BAR == 9

\* print_time: print() unless move_back, the 4 glyph rows, print()
PrintTimeLines(move_back) == (IF move_back THEN 0 ELSE 1) + 4 + 1

\* print_label: one print of a string that ends with "\n"
PrintLabelLines == 1 + 1

\* print_progress_bar: the bar, then print()
ProgressBarLines == 1 + 1

\* the status line of focus mode in stopwatch_mode: the paused text is
\* printed with a trailing "\n", the running case is a bare print()
SwFocusStatusLines(isPaused) == IF isPaused THEN 1 + 1 ELSE 1

\* the status line of focus mode in countdown_timer: one print either way
CdFocusStatusLines(isPaused) == 1

ClkLinesToMove(f) == IF ~f THEN DISPLAY_LINES_WITH_LABEL ELSE DISPLAY_LINES_TIME_ONLY
SwLinesToMove(f) == DISPLAY_LINES_WITH_LABEL
CdLinesToMove(f) == IF f THEN DISPLAY_LINES_FOCUS_WITH_BAR ELSE DISPLAY_LINES_WITH_BAR

\* lines printed by one frame of each loop
ClkFrameLines(f, move_back) ==
    PrintTimeLines(move_back) + (IF ~f THEN PrintLabelLines ELSE 0)

SwFrameLines(f, isPaused) ==
    PrintTimeLines(TRUE) + (IF ~f THEN PrintLabelLines ELSE SwFocusStatusLines(isPaused))

CdFrameLines(f, isPaused) ==
    PrintTimeLines(TRUE) + (IF ~f THEN PrintLabelLines ELSE CdFocusStatusLines(isPaused))
        + ProgressBarLines

\* ------------------------------------------------------------------------
\* countdown_timer
\* ------------------------------------------------------------------------
\* where countdown_timer returns to
CdCaller(m) ==
    CASE m = "timer" -> "ih_exit"
      [] m = "pomodoro" -> "pm_after"
      [] m = "countdown" -> "done"

\* the frame counter is exact up to MaxExtraFrames frames beyond those a
\* countdown needs to get from total to rem, and saturates there
FrameCap(total, rem) == (total - rem) + 1 + MaxExtraFrames
CountFrame(n, cap) == IF n < cap THEN n + 1 ELSE n

\* variant: the division is not guarded
ProgressUnguarded(total, rem) == [num |-> total - rem, den |-> total]

\* progress = (total_seconds - remaining) / total_seconds if total_seconds > 0 else 1.0
Progress(total, rem) ==
    IF total > 0 THEN [num |-> total - rem, den |-> total]
    ELSE [num |-> 1, den |-> 1]

\* variant: remaining is never decremented
DecrementNever(rem, isPaused) == rem

\* variant: the decrement does not look at paused
DecrementAlways(rem, isPaused) == rem - 1

\* if not paused: remaining -= 1
Decrement(rem, isPaused) == IF ~isPaused THEN rem - 1 ELSE rem

\* variant: key 'q' is ignored
TogglePauseNever(k, isPaused) == isPaused

\* if key == 'q': paused = not paused
TogglePause(k, isPaused) == IF k = "q" THEN ~isPaused ELSE isPaused

\* variant: the loop stops one value early
WhileRemainingPositive(rem) == rem > 0

\* the while condition
WhileRemaining(rem) == rem >= 0

\* locals set up, then the first test of the while condition
CdInit ==
    /\ pc = "cd_init"
    /\ remaining' = total_seconds
    /\ paused' = FALSE
    /\ first_iteration' = TRUE
    /\ got_key' = FALSE
    /\ nframes' = 0
    /\ shown' = -1
    /\ shown_paused' = FALSE
    /\ progress' = NoProgress
    /\ printed' = 0
    /\ moved' = 0
    /\ tick_steps' = <<>>
    /\ events' = Append(events, Ev("start", phase, session))
    /\ IF WhileRemaining(total_seconds)
       THEN pc' = "cd_poll" /\ cd_result' = "none"
       ELSE pc' = CdCaller(mode) /\ cd_result' = "completed"
    /\ UNCHANGED <<args, mode, sigint, exit_code, key, termVars, bells, session,
                   phase, total_seconds, swVars, parseVars, glyphVars>>

\* key = input_handler.get_key() and the handling of 'q'
CdPoll ==
    /\ pc = "cd_poll"
    /\ \E k \in Keys :
         /\ key' = k
         /\ got_key' = (got_key \/ k # "none")
         /\ paused' = TogglePause(k, paused)
    /\ tick_steps' = <<"poll">>
    /\ pc' = "cd_sleep"
    /\ UNCHANGED <<args, mode, sigint, exit_code, termVars, pomVars, cdVars,
                   first_iteration, nframes, shown, shown_paused, swVars, parseVars,
                   printed, moved, glyphVars>>

\* if not first_iteration: time.sleep(1); move_up(lines_to_move)
CdSleep ==
    /\ pc = "cd_sleep"
    /\ IF ~first_iteration
       THEN /\ tick_steps' = tick_steps \o <<"sleep", "move_up">>
            /\ moved' = CdLinesToMove(focus)
       ELSE UNCHANGED <<tick_steps, moved>>
    /\ first_iteration' = FALSE
    /\ key' = "none"
    /\ pc' = "cd_render"
    /\ UNCHANGED <<args, mode, sigint, exit_code, termVars, pomVars, cdVars,
                   paused, got_key, nframes, shown, shown_paused, swVars, parseVars,
                   printed, glyphVars>>

\* print_time(format_time(remaining)), label, progress bar
CdRender ==
    /\ pc = "cd_render"
    /\ shown' = remaining
    /\ shown_paused' = paused
    /\ progress' = Progress(total_seconds, remaining)
    /\ nframes' = CountFrame(nframes, FrameCap(total_seconds, remaining))
    /\ printed' = CdFrameLines(focus, paused)
    /\ tick_steps' = Append(tick_steps, "render")
    /\ pc' = "cd_dec"
    /\ UNCHANGED <<args, mode, sigint, exit_code, key, termVars, pomVars,
                   total_seconds, remaining, cd_result, paused, first_iteration,
                   got_key, swVars, parseVars, moved, glyphVars>>

\* the decrement, then the while test; the loop ends with return False
CdDec ==
    /\ pc = "cd_dec"
    /\ remaining' = Decrement(remaining, paused)
    /\ tick_steps' = Append(tick_steps, "update")
    /\ IF WhileRemaining(remaining')
       THEN pc' = "cd_poll" /\ UNCHANGED <<cd_result, events>>
       ELSE /\ pc' = CdCaller(mode)
            /\ cd_result' = "completed"
            /\ events' = Append(events, Ev("done", phase, session))
    /\ UNCHANGED <<args, mode, sigint, exit_code, key, termVars, bells, session,
                   phase, total_seconds, progress, loopVars, swVars, parseVars,
                   printed, moved, glyphVars>>

\* except KeyboardInterrupt: print(); return True
CdExcept ==
    /\ pc = "cd_except"
    /\ cd_result' = "interrupted"
    /\ pc' = CdCaller(mode)
    /\ UNCHANGED <<args, mode, sigint, exit_code, key, termVars, pomVars,
                   total_seconds, remaining, progress, loopVars, swVars, parseVars, dispVars, glyphVars>>

\* ------------------------------------------------------------------------
\* timer_mode
\* ------------------------------------------------------------------------
\* parse_duration and the positivity test; both failures print and return
TmParse ==
    /\ pc = "tm_parse"
    /\ LET r == parse_duration(args.timer.s)
       IN  IF ~r.ok
           THEN pc' = "main_ret" /\ UNCHANGED total_seconds
           ELSE IF r.v <= 0
           THEN pc' = "main_ret" /\ UNCHANGED total_seconds
           ELSE pc' = "tm_clear" /\ total_seconds' = r.v
    /\ UNCHANGED <<args, mode, sigint, exit_code, key, termVars, pomVars,
                   remaining, cd_result, progress, loopVars, swVars, parseVars, dispVars, glyphVars>>

\* TerminalUtils.clear_screen()
TmClear ==
    /\ pc = "tm_clear"
    /\ pc' = "ih_init"
    /\ UNCHANGED <<args, mode, sigint, exit_code, key, termVars, pomVars, cdVars,
                   loopVars, swVars, parseVars, dispVars, glyphVars>>

\* if config.bell_enabled: ring_bell()  -- the return value of
\* countdown_timer is not looked at
TmBell ==
    /\ pc = "tm_bell"
    /\ IF bell_enabled
       THEN bells' = bells + 1 /\ events' = Append(events, Ev("bell", phase, session))
       ELSE UNCHANGED <<bells, events>>
    /\ pc' = "main_ret"
    /\ UNCHANGED <<args, mode, sigint, exit_code, key, termVars, session, phase,
                   cdVars, loopVars, swVars, parseVars, dispVars, glyphVars>>

\* ------------------------------------------------------------------------
\* pomodoro_mode
\* ------------------------------------------------------------------------
work_minutes == parse_pomodoro(args.pomodoro.s).work
break_minutes == parse_pomodoro(args.pomodoro.s).brk

\* session = 1
PmStart ==
    /\ pc = "pm_start"
    /\ session' = 1
    /\ pc' = "ih_init"
    /\ UNCHANGED <<args, mode, sigint, exit_code, key, termVars, bells, phase,
                   events, cdVars, loopVars, swVars, parseVars, dispVars, glyphVars>>

\* clear_screen(), then the call of countdown_timer for the phase
PmClear ==
    /\ pc = "pm_clear"
    /\ total_seconds' = IF phase = "Work" THEN work_minutes * 60 ELSE break_minutes * 60
    /\ pc' = "cd_init"
    /\ UNCHANGED <<args, mode, sigint, exit_code, key, termVars, pomVars,
                   remaining, cd_result, progress, loopVars, swVars, parseVars, dispVars, glyphVars>>

\* variant: the interrupted flag is not looked at
BreakOutNever(res) == FALSE

\* if interrupted: break
BreakOut(res) == res = "interrupted"

\* variant: session += 1 follows every delay
AfterDelayAlwaysInc(ph) == "pm_inc"

\* what follows the 2-second delay: the Break call after Work, session += 1
\* after Break
AfterDelay(ph) == IF ph = "Work" THEN "pm_clear" ELSE "pm_inc"

\* if interrupted: break; if config.bell_enabled: ring_bell()
PmAfter ==
    /\ pc = "pm_after"
    /\ IF BreakOut(cd_result)
       THEN pc' = "ih_exit" /\ UNCHANGED <<bells, events>>
       ELSE /\ pc' = "pm_delay"
            /\ IF bell_enabled
               THEN /\ bells' = bells + 1
                    /\ events' = Append(events, Ev("bell", phase, session))
               ELSE UNCHANGED <<bells, events>>
    /\ UNCHANGED <<args, mode, sigint, exit_code, key, termVars, session, phase,
                   cdVars, loopVars, swVars, parseVars, dispVars, glyphVars>>

\* time.sleep(2); after Work the Break call follows, after Break session += 1
PmDelay ==
    /\ pc = "pm_delay"
    /\ events' = Append(events, Ev("delay", phase, session))
    /\ pc' = AfterDelay(phase)
    /\ phase' = IF pc' = "pm_clear" THEN "Break" ELSE phase
    /\ UNCHANGED <<args, mode, sigint, exit_code, key, termVars, bells, session,
                   cdVars, loopVars, swVars, parseVars, dispVars, glyphVars>>

\* session += 1, and the while True loop starts over
PmInc ==
    /\ pc = "pm_inc"
    /\ session < MaxSession
    /\ session' = session + 1
    /\ events' = Append(events, Ev("inc", phase, session + 1))
    /\ phase' = "Work"
    /\ pc' = "pm_clear"
    /\ UNCHANGED <<args, mode, sigint, exit_code, key, termVars, bells, cdVars,
                   loopVars, swVars, parseVars, dispVars, glyphVars>>

\* except KeyboardInterrupt: print()
PmExcept ==
    /\ pc = "pm_except"
    /\ pc' = "ih_exit"
    /\ UNCHANGED <<args, mode, sigint, exit_code, key, termVars, pomVars, cdVars,
                   loopVars, swVars, parseVars, dispVars, glyphVars>>

\* ------------------------------------------------------------------------
\* stopwatch_mode
\* ------------------------------------------------------------------------
\* int(x) for x a time difference in clock units: whole seconds, truncated
\* toward zero
IntSeconds(x) ==
    IF x >= 0 THEN x \div UnitsPerSec ELSE 0 - ((0 - x) \div UnitsPerSec)

\* variant: a reset leaves start_time alone
ResetKeepStart(start, t) == start

\* start_time = time.time() on key 'r'
ResetStart(start, t) == t

\* variant: resuming leaves start_time alone
ResumeNoShift(start, t, pstart) == start

\* variant: resuming restarts the stopwatch at the time of the resume
ResumeRestart(start, t, pstart) == t

\* start_time += (time.time() - pause_start)
ResumeShift(start, t, pstart) == start + (t - pstart)

\* TerminalUtils.clear_screen(); display = Display(config)
SwClear ==
    /\ pc = "sw_clear"
    /\ pc' = "ih_init"
    /\ UNCHANGED <<args, mode, sigint, exit_code, key, termVars, pomVars, cdVars,
                   loopVars, swVars, parseVars, dispVars, glyphVars>>

\* the locals before the loop
SwSetup ==
    /\ pc = "sw_setup"
    /\ start_time' = now
    /\ elapsed' = 0
    /\ paused' = FALSE
    /\ pause_start' = 0
    /\ first_iteration' = TRUE
    /\ got_key' = FALSE
    /\ start0' = now
    /\ paused_total' = 0
    /\ reset_seen' = FALSE
    /\ reset_tick' = FALSE
    /\ printed' = 0
    /\ moved' = 0
    /\ tick_steps' = <<>>
    /\ pc' = "sw_poll"
    /\ UNCHANGED <<args, mode, sigint, exit_code, key, termVars, pomVars, cdVars,
                   nframes, shown, shown_paused, now, read_gap, parseVars, glyphVars>>

\* get_key and the handling of 'q' and 'r'
SwPoll ==
    /\ pc = "sw_poll"
    /\ \E k \in Keys :
         /\ key' = k
         /\ got_key' = (got_key \/ k # "none")
         /\ reset_tick' = (k = "r")
         /\ IF k = "q"
            THEN /\ paused' = ~paused
                 /\ IF paused'
                    THEN /\ pause_start' = now
                         /\ UNCHANGED <<start_time, paused_total>>
                    ELSE /\ start_time' = ResumeShift(start_time, now, pause_start)
                         /\ paused_total' = paused_total + (now - pause_start)
                         /\ UNCHANGED pause_start
                 /\ UNCHANGED <<elapsed, reset_seen, start0>>
            ELSE IF k = "r"
            THEN /\ start_time' = ResetStart(start_time, now)
                 /\ elapsed' = 0
                 /\ paused' = FALSE
                 /\ reset_seen' = TRUE
                 /\ start0' = now
                 /\ paused_total' = 0
                 /\ UNCHANGED pause_start
            ELSE UNCHANGED <<paused, start_time, pause_start, elapsed,
                             paused_total, reset_seen, start0>>
    /\ tick_steps' = <<"poll">>
    /\ pc' = "sw_update"
    /\ UNCHANGED <<args, mode, sigint, exit_code, termVars, pomVars, cdVars,
                   first_iteration, nframes, shown, shown_paused, now, read_gap,
                   parseVars, printed, moved, glyphVars>>

\* if not paused: elapsed = int(time.time() - start_time)
SwUpdate ==
    /\ pc = "sw_update"
    /\ IF ~paused
       THEN elapsed' = IntSeconds(now - start_time)
       ELSE UNCHANGED elapsed
    /\ key' = "none"
    /\ read_gap' = 0
    /\ tick_steps' = Append(tick_steps, "update")
    /\ pc' = "sw_render"
    /\ UNCHANGED <<args, mode, sigint, exit_code, termVars, pomVars, cdVars,
                   loopVars, now, start_time, pause_start, start0, paused_total,
                   reset_seen, reset_tick, parseVars, printed, moved, glyphVars>>

\* move_up unless first, print_time(format_time(elapsed)), label line
SwRender ==
    /\ pc = "sw_render"
    /\ IF ~first_iteration
       THEN /\ moved' = SwLinesToMove(focus)
            /\ tick_steps' = tick_steps \o <<"move_up", "render">>
       ELSE /\ UNCHANGED moved
            /\ tick_steps' = Append(tick_steps, "render")
    /\ first_iteration' = FALSE
    /\ shown' = elapsed
    /\ shown_paused' = paused
    /\ nframes' = CountFrame(nframes, MaxExtraFrames)
    /\ printed' = SwFrameLines(focus, paused)
    /\ pc' = "sw_sleep"
    /\ UNCHANGED <<args, mode, sigint, exit_code, key, termVars, pomVars, cdVars,
                   paused, got_key, swVars, parseVars, glyphVars>>

\* time.sleep(0.1)
SwSleep ==
    /\ pc = "sw_sleep"
    /\ tick_steps' = Append(tick_steps, "sleep")
    /\ reset_tick' = FALSE
    /\ pc' = "sw_poll"
    /\ UNCHANGED <<args, mode, sigint, exit_code, key, termVars, pomVars, cdVars,
                   loopVars, now, start_time, pause_start, elapsed, start0,
                   paused_total, reset_seen, read_gap, parseVars, printed, moved,
                   glyphVars>>

\* except KeyboardInterrupt: print(); the with block is left normally
SwExcept ==
    /\ pc = "sw_except"
    /\ pc' = "ih_exit"
    /\ UNCHANGED <<args, mode, sigint, exit_code, key, termVars, pomVars, cdVars,
                   loopVars, swVars, parseVars, dispVars, glyphVars>>

\* ------------------------------------------------------------------------
\* clock_mode
\* ------------------------------------------------------------------------
\* TerminalUtils.clear_screen(); display = Display(config)
ClkClear ==
    /\ pc = "clk_clear"
    /\ pc' = "clk_first"
    /\ UNCHANGED <<args, mode, sigint, exit_code, key, termVars, pomVars, cdVars,
                   loopVars, swVars, parseVars, dispVars, glyphVars>>

\* the first frame, rendered before the try block
ClkFirst ==
    /\ pc = "clk_first"
    /\ shown' = IntSeconds(now)
    /\ nframes' = CountFrame(nframes, MaxExtraFrames)
    /\ printed' = ClkFrameLines(focus, FALSE)
    /\ moved' = 0
    /\ tick_steps' = <<"render">>
    /\ pc' = "clk_sleep"
    /\ UNCHANGED <<args, mode, sigint, exit_code, key, termVars, pomVars, cdVars,
                   paused, first_iteration, got_key, shown_paused, swVars, parseVars,
                   glyphVars>>

\* time.sleep(1)
ClkSleep ==
    /\ pc = "clk_sleep"
    /\ tick_steps' = <<"sleep">>
    /\ pc' = "clk_render"
    /\ UNCHANGED <<args, mode, sigint, exit_code, key, termVars, pomVars, cdVars,
                   loopVars, swVars, parseVars, printed, moved, glyphVars>>

\* datetime.now(), move_up, print_time and the date label
ClkRender ==
    /\ pc = "clk_render"
    /\ shown' = IntSeconds(now)
    /\ nframes' = CountFrame(nframes, MaxExtraFrames)
    /\ moved' = ClkLinesToMove(focus)
    /\ printed' = ClkFrameLines(focus, TRUE)
    /\ tick_steps' = tick_steps \o <<"update", "move_up", "render">>
    /\ pc' = "clk_sleep"
    /\ UNCHANGED <<args, mode, sigint, exit_code, key, termVars, pomVars, cdVars,
                   paused, first_iteration, got_key, shown_paused, swVars, parseVars,
                   glyphVars>>

\* except KeyboardInterrupt: print()
ClkExcept ==
    /\ pc = "clk_except"
    /\ pc' = "main_ret"
    /\ UNCHANGED <<args, mode, sigint, exit_code, key, termVars, pomVars, cdVars,
                   loopVars, swVars, parseVars, dispVars, glyphVars>>

\* ------------------------------------------------------------------------
\* Environment: the wall clock and Ctrl+C
\* ------------------------------------------------------------------------
\* positions at which the passing of time is observable by a later read:
\* time passes during the cadence sleep that precedes a poll, and between
\* the clock reads of one tick (key handling, then the elapsed update), which
\* lie less than a second apart
TimedPcs == {"sw_poll", "sw_update", "clk_sleep"}

Advance ==
    /\ pc \in TimedPcs
    /\ now < MaxTime
    /\ pc = "sw_poll" => ~first_iteration
    /\ pc = "sw_update" => read_gap + 1 < UnitsPerSec
    /\ now' = now + 1
    /\ read_gap' = IF pc = "sw_update" THEN read_gap + 1 ELSE read_gap
    /\ UNCHANGED <<args, pc, mode, sigint, exit_code, key, termVars, pomVars,
                   cdVars, loopVars, start_time, pause_start, elapsed, start0,
                   paused_total, reset_seen, reset_tick, parseVars, dispVars,
                   glyphVars>>

\* positions inside the try block of the running loop, with its handler
ClkTryPcs == {"clk_sleep", "clk_render"}
SwTryPcs == {"sw_poll", "sw_update", "sw_render", "sw_sleep"}
CdTryPcs == {"cd_poll", "cd_sleep", "cd_render", "cd_dec"}
PmTryPcs == {"pm_clear", "pm_after", "pm_delay", "pm_inc"}
\* positions of a mode outside every try and every with block
BarePcs == {"clk_clear", "clk_first", "sw_clear", "tm_parse", "tm_clear", "tm_bell",
            "pm_start", "ih_init", "ih_enter_cbreak", "ih_enter_noecho", "ih_exit"}

\* a KeyboardInterrupt raised at position p of mode m: "handler" names the
\* except clause that catches it, "with" means it leaves the with block
\* through __exit__ uncaught, "bare" means nothing catches it
InterruptTarget(p, m) ==
    IF p \in ClkTryPcs THEN "clk_except"
    ELSE IF p \in SwTryPcs THEN "sw_except"
    ELSE IF p \in CdTryPcs THEN "cd_except"
    ELSE IF p \in PmTryPcs THEN "pm_except"
    ELSE IF p = "cd_init" /\ m = "pomodoro" THEN "pm_except"
    ELSE IF p = "cd_init" /\ m = "timer" THEN "with"
    ELSE IF p = "sw_setup" THEN "with"
    ELSE "bare"

InterruptiblePcs ==
    ClkTryPcs \cup SwTryPcs \cup CdTryPcs \cup PmTryPcs \cup BarePcs
        \cup {"cd_init", "sw_setup"}

\* Ctrl+C: at most one KeyboardInterrupt is delivered in a run
Interrupt ==
    /\ sigint = "none"
    /\ pc \in InterruptiblePcs
    /\ sigint' = "delivered"
    /\ LET t == InterruptTarget(pc, mode)
       IN  IF t = "bare"
           THEN Exit(130) /\ UNCHANGED raising
           ELSE IF t = "with"
           THEN pc' = "ih_exit" /\ raising' = TRUE /\ UNCHANGED exit_code
           ELSE pc' = t /\ UNCHANGED <<raising, exit_code>>
    /\ UNCHANGED <<args, mode, key, term, term0, old_settings, switched, pomVars,
                   cdVars, loopVars, swVars, parseVars, dispVars, glyphVars>>

\* ------------------------------------------------------------------------
\* The program
\* ------------------------------------------------------------------------
Next ==
    \/ Main \/ MainReturn
    \/ IhInit \/ IhEnterCbreak \/ IhEnterNoEcho \/ IhExit
    \/ CdInit \/ CdPoll \/ CdSleep \/ CdRender \/ CdDec \/ CdExcept
    \/ TmParse \/ TmClear \/ TmBell
    \/ PmStart \/ PmClear \/ PmAfter \/ PmDelay \/ PmInc \/ PmExcept
    \/ SwClear \/ SwSetup \/ SwPoll \/ SwUpdate \/ SwRender \/ SwSleep \/ SwExcept
    \/ ClkClear \/ ClkFirst \/ ClkSleep \/ ClkRender \/ ClkExcept
    \/ Advance \/ Interrupt

Spec == Init /\ [][Next]_vars


\* ------------------------------------------------------------------------
\* countdown_timer on its own: called with a total of 0..MaxTotal by a
\* caller that holds an entered InputHandler
\* ------------------------------------------------------------------------
HarnessArgs ==
    {[white |-> FALSE, black |-> FALSE, no_bell |-> FALSE, focus |-> f,
      bold |-> FALSE, pomodoro |-> None, stopwatch |-> FALSE, timer |-> None] : f \in BOOLEAN}

InitCountdown ==
    /\ args \in HarnessArgs
    /\ pc = "cd_init"
    /\ mode = "countdown"
    /\ term0 = Cooked
    /\ term = ClearEcho(SetCbreak(Cooked))
    /\ old_settings = Cooked
    /\ switched = TRUE
    /\ total_seconds \in 0..MaxTotal
    /\ seconds = 0
    /\ parts_in = <<>>
    /\ duration_str = <<>>
    /\ time_str = <<>>
    /\ now = 0
    /\ InitLocals

NextCountdown ==
    \/ CdInit \/ CdPoll \/ CdSleep \/ CdRender \/ CdDec \/ CdExcept
    \/ Interrupt

SpecCountdown == InitCountdown /\ [][NextCountdown]_vars

\* ------------------------------------------------------------------------
\* stopwatch_mode on its own
\* ------------------------------------------------------------------------
InitStopwatch ==
    /\ args \in {[a EXCEPT !.stopwatch = TRUE] : a \in HarnessArgs}
    /\ pc = "sw_clear"
    /\ mode = "stopwatch"
    /\ term0 = Cooked
    /\ term = term0
    /\ old_settings = term0
    /\ switched = FALSE
    /\ total_seconds = 0
    /\ seconds = 0
    /\ parts_in = <<>>
    /\ duration_str = <<>>
    /\ time_str = <<>>
    /\ now = 0
    /\ InitLocals

NextStopwatch ==
    \/ SwClear \/ IhInit \/ IhEnterCbreak \/ IhEnterNoEcho \/ IhExit
    \/ SwSetup \/ SwPoll \/ SwUpdate \/ SwRender \/ SwSleep \/ SwExcept
    \/ MainReturn \/ Advance \/ Interrupt

SpecStopwatch == InitStopwatch /\ [][NextStopwatch]_vars

\* ------------------------------------------------------------------------
\* The three tick loops, each on its own, with a countdown loop that keeps
\* running: the interpreter goes on to the next statement of countdown_timer
\* and time.sleep(1) returns.  Nothing is assumed of keys and interrupts.
\* The loops are watched over the last second of the clock's range.
\* ------------------------------------------------------------------------
CdStep == CdInit \/ CdPoll \/ CdSleep \/ CdRender \/ CdDec

InitLive ==
    /\ \/ /\ args \in HarnessArgs
          /\ pc = "cd_init"
          /\ mode = "countdown"
          /\ term = ClearEcho(SetCbreak(Cooked))
          /\ switched = TRUE
          /\ total_seconds \in 0..MaxTotal
       \/ /\ args \in HarnessArgs
          /\ pc = "clk_clear"
          /\ mode = "clock"
          /\ term = Cooked
          /\ switched = FALSE
          /\ total_seconds = 0
       \/ /\ args \in {[a EXCEPT !.stopwatch = TRUE] : a \in HarnessArgs}
          /\ pc = "sw_clear"
          /\ mode = "stopwatch"
          /\ term = Cooked
          /\ switched = FALSE
          /\ total_seconds = 0
    /\ term0 = Cooked
    /\ old_settings = Cooked
    /\ seconds = 0
    /\ parts_in = <<>>
    /\ duration_str = <<>>
    /\ time_str = <<>>
    /\ now = MaxTime - UnitsPerSec
    /\ InitLocals

NextLive ==
    \/ CdInit \/ CdPoll \/ CdSleep \/ CdRender \/ CdDec \/ CdExcept
    \/ ClkClear \/ ClkFirst \/ ClkSleep \/ ClkRender \/ ClkExcept
    \/ SwClear \/ IhInit \/ IhEnterCbreak \/ IhEnterNoEcho \/ IhExit
    \/ SwSetup \/ SwPoll \/ SwUpdate \/ SwRender \/ SwSleep \/ SwExcept
    \/ MainReturn \/ Advance \/ Interrupt

SpecLive == InitLive /\ [][NextLive]_vars /\ WF_vars(CdStep)

\* ------------------------------------------------------------------------
\* parse_duration on its own: applied to strings joined from up to MaxParts
\* parts
\* ------------------------------------------------------------------------
PartSet ==
    { <<>>, <<"0">>, <<"5">>, <<"0", "7">>, <<"1", "2">>, <<"x">>, <<"1", "x">>,
      <<"-", "3">>, <<" ", "4">>, <<"1", "_", "0">>, <<"\t", "4", "\n">>,
      <<" ", "4">> }

PartSeqs == UNION {[1..n -> PartSet] : n \in 1..MaxParts}

InitParse ==
    /\ args \in {a \in HarnessArgs : ~a.focus}
    /\ pc = "parse"
    /\ mode = "parse"
    /\ term0 = Cooked
    /\ term = term0
    /\ old_settings = term0
    /\ switched = FALSE
    /\ total_seconds = 0
    /\ seconds = 0
    /\ parts_in \in PartSeqs
    /\ duration_str = Join(parts_in, ":")
    /\ time_str = <<>>
    /\ now = 0
    /\ InitLocals

Parse ==
    /\ pc = "parse"
    /\ result' = parse_duration(duration_str)
    /\ pc' = "parsed"
    /\ UNCHANGED <<args, mode, sigint, exit_code, key, termVars, pomVars, cdVars,
                   loopVars, swVars, seconds, parts_in, duration_str, dispVars,
                   glyphVars>>

SpecParse == InitParse /\ [][Parse]_vars

\* ------------------------------------------------------------------------
\* format_time on its own, followed by parse_duration of what it returned
\* ------------------------------------------------------------------------
\* whole hours around which the hour field gets a second and a third digit
LargeSeconds == {35999, 36000, 86399, 86400, 359999, 360000, 360001}

FormatInputs == 0..MaxFormatSeconds \cup LargeSeconds

InitFormat ==
    /\ args \in {a \in HarnessArgs : ~a.focus}
    /\ pc = "format"
    /\ mode = "format"
    /\ term0 = Cooked
    /\ term = term0
    /\ old_settings = term0
    /\ switched = FALSE
    /\ total_seconds = 0
    /\ seconds \in FormatInputs
    /\ parts_in = <<>>
    /\ duration_str = <<>>
    /\ time_str = <<>>
    /\ now = 0
    /\ InitLocals

Format ==
    /\ pc = "format"
    /\ duration_str' = format_time(seconds)
    /\ pc' = "parse"
    /\ UNCHANGED <<args, mode, sigint, exit_code, key, termVars, pomVars, cdVars,
                   loopVars, swVars, seconds, parts_in, result, dispVars, glyphVars>>

NextFormat == Format \/ Parse

SpecFormat == InitFormat /\ [][NextFormat]_vars

\* ------------------------------------------------------------------------
\* Display.print_time on its own: applied, in both glyph styles, to every
\* string of up to MaxChars characters
\* ------------------------------------------------------------------------
\* the characters of the glyph tables and one that is in neither
InputChars == DOMAIN SEGMENTS \cup {"x"}

TimeStrings == UNION {[1..n -> InputChars] : n \in 0..MaxChars}

InitPrint ==
    /\ args \in {[a EXCEPT !.bold = b] : a \in {h \in HarnessArgs : ~h.focus}, b \in BOOLEAN}
    /\ pc = "print_time"
    /\ mode = "print_time"
    /\ term0 = Cooked
    /\ term = term0
    /\ old_settings = term0
    /\ switched = FALSE
    /\ total_seconds = 0
    /\ seconds = 0
    /\ parts_in = <<>>
    /\ duration_str = <<>>
    /\ time_str \in TimeStrings
    /\ now = 0
    /\ InitLocals

PrintTime ==
    /\ pc = "print_time"
    /\ lines' = print_time(time_str, args.bold)
    /\ printed' = PrintTimeLines(FALSE)
    /\ pc' = "printed"
    /\ UNCHANGED <<args, mode, sigint, exit_code, key, termVars, pomVars, cdVars,
                   loopVars, swVars, parseVars, moved, tick_steps, time_str>>

SpecPrint == InitPrint /\ [][PrintTime]_vars

\* ========================================================================
\* Properties
\* ========================================================================

\* C1: a countdown_timer run that gets no key and no interrupt renders, as
\* its k-th frame (k = 0..N), the remaining value N - k with progress k/N,
\* never a negative value; it returns False right after the frame that
\* shows 0, having rendered exactly N + 1 frames.
C1_CountdownFrames ==
    (~got_key /\ sigint = "none") =>
        /\ nframes > 0 =>
             /\ shown = total_seconds - (nframes - 1)
             /\ shown >= 0
             /\ total_seconds > 0 =>
                  /\ progress.den > 0
                  /\ progress.num * total_seconds = (nframes - 1) * progress.den
        /\ cd_result = "completed" => (nframes = total_seconds + 1 /\ shown = 0)
        /\ (shown = 0 /\ cd_result # "completed") => pc = "cd_dec"

C1_Witness ==
    /\ pc = "done"
    /\ cd_result = "completed"
    /\ ~got_key
    /\ total_seconds = 3
    /\ nframes = 4
    /\ progress = [num |-> 3, den |-> 3]

\* C2: in a tick that ends with paused false, remaining goes down by exactly
\* 1; in a tick that ends with paused true, remaining is unchanged; a key
\* other than 'q' leaves paused alone; nothing else in the loop changes
\* remaining or paused.
C2_TickRule ==
    [][ /\ (pc = "cd_dec" /\ pc' # "cd_except") =>
               remaining' = IF paused THEN remaining ELSE remaining - 1
        /\ (pc = "cd_poll" /\ pc' = "cd_sleep" /\ key' # "q") => paused' = paused
        /\ pc \notin {"cd_dec", "cd_init"} => remaining' = remaining
        /\ pc \notin {"cd_poll", "cd_init"} => paused' = paused ]_vars

C2_Witness ==
    /\ pc = "cd_poll"
    /\ got_key
    /\ shown_paused
    /\ paused
    /\ remaining = shown
    /\ remaining < total_seconds

\* C3: with no reset, a frame rendered while the stopwatch runs shows
\* floor(now - start - total duration of the completed pauses), and a frame
\* rendered while it is paused shows the same value as the frame before.
C3_RunningValue ==
    (pc = "sw_sleep" /\ ~paused /\ ~reset_seen) =>
        shown = (now - start0 - paused_total) \div UnitsPerSec

C3_FrozenStep ==
    (pc = "sw_render" /\ pc' = "sw_sleep" /\ paused /\ ~reset_seen /\ nframes > 0) =>
        shown' = shown

C3_StopwatchElapsed == [](C3_RunningValue) /\ [][C3_FrozenStep]_vars

\* start, 1 s running, pause, 2 s paused, resume, 1 s running: shows 2
C3_Witness ==
    /\ pc = "sw_sleep"
    /\ ~paused
    /\ ~reset_seen
    /\ pause_start = start0 + 1 * UnitsPerSec
    /\ paused_total = 2 * UnitsPerSec
    /\ now = start0 + 4 * UnitsPerSec
    /\ shown = 2

\* the events of a Pomodoro cycle, in order, with and without the bell
Cycle(bell) ==
    IF bell
    THEN << <<"start", "Work">>, <<"done", "Work">>, <<"bell", "Work">>,
            <<"delay", "Work">>, <<"start", "Break">>, <<"done", "Break">>,
            <<"bell", "Break">>, <<"delay", "Break">>, <<"inc", "Break">> >>
    ELSE << <<"start", "Work">>, <<"done", "Work">>, <<"delay", "Work">>,
            <<"start", "Break">>, <<"done", "Break">>, <<"delay", "Break">>,
            <<"inc", "Break">> >>

\* the i-th event of an uninterrupted Pomodoro run; the increment that ends
\* cycle n carries the new session number n + 1
ExpectedEvent(i, bell) ==
    LET c == Cycle(bell)
        k == ((i - 1) % Len(c)) + 1
        n == ((i - 1) \div Len(c)) + 1
    IN  Ev(c[k][1], c[k][2], IF c[k][1] = "inc" THEN n + 1 ELSE n)

PomodoroOrder ==
    \A i \in 1..Len(events) : events[i] = ExpectedEvent(i, bell_enabled)

CompletedBreaks ==
    Cardinality({i \in 1..Len(events) : events[i].e = "done" /\ events[i].ph = "Break"})

Increments == Cardinality({i \in 1..Len(events) : events[i].e = "inc"})

\* pomodoro_mode has assigned its session counter
InPomodoroLoop == mode = "pomodoro" /\ session >= 1

\* a Break countdown has completed and its session += 1 has not run
AfterBreakWindow ==
    /\ Len(events) > 0
    /\ events[Len(events)].ph = "Break"
    /\ events[Len(events)].e \in {"done", "bell", "delay"}

\* C4 as stated: the events of every cycle come in the order Work, bell,
\* delay, Break, bell, delay, increment, next Work, and the session counter
\* always equals 1 + the number of completed Break countdowns.
C4_SessionAlwaysOnePlusBreaks ==
    InPomodoroLoop => (PomodoroOrder /\ session = 1 + CompletedBreaks)

\* C4 amended: the same order; the session counter starts at 1 and changes
\* only at the increment, so it equals 1 + the number of completed Break
\* countdowns except from the completion of a Break countdown until the
\* increment that follows its bell and delay, where it equals that number.
C4_PomodoroOrderAndSession ==
    InPomodoroLoop =>
        /\ PomodoroOrder
        /\ session = 1 + Increments
        /\ session = IF AfterBreakWindow THEN CompletedBreaks ELSE 1 + CompletedBreaks

C4_Witness ==
    /\ mode = "pomodoro"
    /\ bell_enabled
    /\ session = 2
    /\ phase = "Work"
    /\ pc = "cd_poll"
    /\ bells = 2
    /\ CompletedBreaks = 1

\* C5: once an interrupt has been delivered to pomodoro_mode, the loop is
\* over: the program is at no loop position, and no frame is rendered, no
\* phase starts, no bell rings and the session counter does not change.
C5_AfterInterruptPositions ==
    (mode = "pomodoro" /\ sigint = "delivered") =>
        /\ pc \in {"cd_except", "pm_after", "pm_except", "ih_exit", "main_ret", "exited"}
        /\ pc = "pm_after" => cd_result = "interrupted"

C5_AfterInterruptStep ==
    (mode = "pomodoro" /\ sigint = "delivered") =>
        /\ nframes' = nframes
        /\ shown' = shown
        /\ phase' = phase
        /\ bells' = bells
        /\ session' = session
        /\ events' = events

C5_InterruptEndsPomodoro ==
    [](C5_AfterInterruptPositions) /\ [][C5_AfterInterruptStep]_vars

C5_Witness ==
    /\ mode = "pomodoro"
    /\ sigint = "delivered"
    /\ pc = "exited"
    /\ cd_result = "interrupted"
    /\ phase = "Work"
    /\ nframes >= 2
    /\ bells = 0
    /\ session = 1

\* C6: when a mode that switched the terminal to cbreak/no-echo has
\* terminated, the terminal settings are those in force before.
C6_TerminalRestored ==
    (pc = "exited" /\ switched) => term = term0

\* the command line is a validation error: conflicting colours, a Pomodoro
\* argument that is not two positive integers, a timer duration that is
\* malformed or not positive
ValidationError(a) ==
    \/ a.white /\ a.black
    \/ /\ ~(a.white /\ a.black)
       /\ Truthy(a.pomodoro)
       /\ ~parse_pomodoro(a.pomodoro.s).ok
    \/ /\ ~(a.white /\ a.black)
       /\ ~Truthy(a.pomodoro)
       /\ ~a.stopwatch
       /\ Truthy(a.timer)
       /\ LET r == parse_duration(a.timer.s) IN ~r.ok \/ r.v <= 0

\* C7: every argument validation error ends the process with exit code 1
\* and no frame of a tick loop rendered.
C7_ValidationErrorExitsOne ==
    (pc = "exited" /\ sigint = "none" /\ ValidationError(args)) =>
        (exit_code = 1 /\ nframes = 0)

\* C8: a run in which an interrupt was delivered while a mode was running
\* ends with exit code 0.
C8_InterruptExitsZero ==
    (pc = "exited" /\ sigint = "delivered") => exit_code = 0

\* C9: the bell rings only after a countdown that returned not-interrupted,
\* and only when bell_enabled is true.
C9_BellOnlyOnCompletion ==
    [][bells' # bells => (cd_result = "completed" /\ bell_enabled)]_vars

\* reference reading of a duration given as parts
IsDigits(p) == Len(p) > 0 /\ \A i \in 1..Len(p) : p[i] \in Digits

RECURSIVE Pow10(_)
Pow10(n) == IF n = 0 THEN 1 ELSE 10 * Pow10(n - 1)

RECURSIVE RefValue(_)
RefValue(p) ==
    IF p = <<>> THEN 0
    ELSE DigitVal(Head(p)) * Pow10(Len(p) - 1) + RefValue(Tail(p))

ValidParts(ps) == Len(ps) \in 1..3 /\ \A i \in 1..Len(ps) : IsDigits(ps[i])

RefSeconds(ps) ==
    IF Len(ps) = 1 THEN RefValue(ps[1])
    ELSE IF Len(ps) = 2 THEN RefValue(ps[1]) * 60 + RefValue(ps[2])
    ELSE RefValue(ps[1]) * 3600 + RefValue(ps[2]) * 60 + RefValue(ps[3])

\* a part that cannot be a number: it holds a character that is no digit,
\* sign, whitespace or underscore
NonNumeric(p) == \E i \in 1..Len(p) : p[i] \notin Digits \cup {"+", "-", "_"} \cup Whitespace

Malformed(ps) ==
    \/ Len(ps) > 3
    \/ \E i \in 1..Len(ps) : ps[i] = <<>>
    \/ \E i \in 1..Len(ps) : NonNumeric(ps[i])

\* C10: 1, 2 or 3 parts of digits parse to S, M*60+S, H*3600+M*60+S; a
\* string with a non-numeric part, an empty part or more than 3 parts
\* raises ValueError.
C10_ParseDuration ==
    pc = "parsed" =>
        /\ ValidParts(parts_in) => (result.ok /\ result.v = RefSeconds(parts_in))
        /\ Malformed(parts_in) => ~result.ok

C10_Witness ==
    /\ pc = "parsed"
    /\ parts_in = << <<"1", "2">>, <<"0", "7">>, <<"5">> >>
    /\ result = [ok |-> TRUE, v |-> 43625]

\* C11: for every n >= 0, format_time(n) is the zero-padded two-part form
\* MM:SS when n < 3600 and the three-part form HH:MM:SS when n >= 3600, with
\* format_time(3599) = "59:59" and format_time(3600) = "01:00:00", and
\* parse_duration(format_time(n)) = n.
C11_FormatRoundTrip ==
    (mode = "format" /\ pc \in {"parse", "parsed"}) =>
        LET fields == Split(duration_str, ":")
        IN  /\ \A i \in 1..Len(fields) : IsDigits(fields[i]) /\ Len(fields[i]) >= 2
            /\ seconds < 3600 =>
                 /\ Len(fields) = 2
                 /\ Len(duration_str) = 5
                 /\ DecValue(fields[1]) = seconds \div 60
                 /\ DecValue(fields[2]) = seconds % 60
            /\ seconds >= 3600 =>
                 /\ Len(fields) = 3
                 /\ Len(fields[2]) = 2
                 /\ Len(fields[3]) = 2
                 /\ Len(fields[1]) = 2 <=> seconds < 360000
                 /\ DecValue(fields[1]) = seconds \div 3600
                 /\ DecValue(fields[2]) = (seconds % 3600) \div 60
                 /\ DecValue(fields[3]) = seconds % 60
            /\ seconds = 3599 => duration_str = <<"5", "9", ":", "5", "9">>
            /\ seconds = 3600 =>
                 duration_str = <<"0", "1", ":", "0", "0", ":", "0", "0">>
            /\ pc = "parsed" => (result.ok /\ result.v = seconds)

C11_Witness ==
    /\ mode = "format"
    /\ pc = "parsed"
    /\ seconds = 3600
    /\ duration_str = <<"0", "1", ":", "0", "0", ":", "0", "0">>
    /\ result = [ok |-> TRUE, v |-> 3600]

\* a step that moves the cursor up and renders a frame after the first
MovesUp ==
    \/ pc = "clk_render" /\ pc' = "clk_sleep"
    \/ pc = "sw_render" /\ pc' = "sw_sleep" /\ ~first_iteration
    \/ pc = "cd_sleep" /\ pc' = "cd_render" /\ ~first_iteration

\* C12: in every mode and display variant, for every frame after the first
\* the number of lines the cursor is moved up before rendering equals the
\* number of terminal lines the previous frame printed.
C12_MoveUpEqualsPrinted ==
    [][MovesUp => moved' = printed]_vars

\* C13: in every stopwatch tick in which the stopwatch is paused, the
\* displayed elapsed value equals floor(pause_start - start_time), the
\* elapsed time at the instant the pausing 'q' was processed.
C13_PausedShowsPauseInstant ==
    (pc = "sw_sleep" /\ paused) => shown = IntSeconds(pause_start - start_time)

\* C14: in every tick the cadence sleep comes after that tick's render, so
\* no sleep separates a tick's key poll from the render of the same tick.
C14_SleepAfterRender ==
    \A i \in 1..Len(tick_steps) :
        tick_steps[i] = "sleep" => \E j \in 1..(i - 1) : tick_steps[j] = "render"

\* the key handling of a tick changes the state in the poll step itself
KeyAppliedAtPoll ==
    /\ (pc = "cd_poll" /\ pc' = "cd_sleep") =>
           paused' = IF key' = "q" THEN ~paused ELSE paused
    /\ (pc = "sw_poll" /\ pc' = "sw_update") =>
           /\ key' = "q" => paused' = ~paused
           /\ key' = "r" => (~paused' /\ elapsed' = 0 /\ start_time' = now)
           /\ key' \notin {"q", "r"} => paused' = paused
    /\ pc \in {"cd_sleep", "cd_render", "sw_update", "sw_render"} => paused' = paused

\* a frame has been rendered in the current tick of a loop that polls keys
FrameOfTick ==
    /\ pc \in {"cd_dec", "sw_sleep"}
    /\ \E i \in 1..Len(tick_steps) : tick_steps[i] = "render"

\* C15: in stopwatch_mode and countdown_timer the effect of the key polled
\* in a tick is applied before that tick's render: the poll is the first
\* step of the tick, and the frame shows the paused flag and the time value
\* of the state that the key handling left.
C15_FrameShowsStateAfterKey ==
    /\ [](FrameOfTick =>
            /\ tick_steps[1] = "poll"
            /\ shown_paused = paused
            /\ pc = "cd_dec" => shown = remaining
            /\ pc = "sw_sleep" => shown = elapsed
            /\ (pc = "sw_sleep" /\ ~paused) => shown = IntSeconds(now - start_time)
            /\ (pc = "sw_sleep" /\ reset_tick) => ~shown_paused)
    /\ [][KeyAppliedAtPoll]_vars

\* the first frame of a timer countdown already shows the pause polled in
\* the first tick
C15_Witness ==
    /\ mode = "timer"
    /\ pc = "cd_dec"
    /\ nframes = 1
    /\ paused
    /\ shown_paused
    /\ shown = total_seconds

\* key 'r' leaves the stopwatch running, started at the time of the key
C16_ResetStep ==
    (pc = "sw_poll" /\ key' = "r") => (~paused' /\ start_time' = now /\ start0' = now)

\* the frame of the tick that handled 'r' shows 00:00, not paused
C16_ResetFrame ==
    (pc = "sw_sleep" /\ reset_tick) => (shown = 0 /\ ~paused /\ ~shown_paused)

\* C16 as stated: key 'r' in any state leaves the stopwatch running with
\* paused false and start_time = now; the frame of that tick shows 00:00;
\* from then on every running frame shows floor(now - time of the reset).
C16_ResetThenSinceReset ==
    /\ [](C16_ResetFrame)
    /\ []((pc = "sw_sleep" /\ ~paused /\ reset_seen) =>
            shown = IntSeconds(now - start0))
    /\ [][C16_ResetStep]_vars

\* C16: key 'r' in any state leaves the stopwatch running with paused false
\* and start_time = now; the frame of that tick shows 00:00; afterwards a
\* running frame shows floor(now - time of the reset - pauses completed
\* since the reset), whatever pauses came before the reset.
C16_Reset ==
    /\ [](C16_ResetFrame)
    /\ []((pc = "sw_sleep" /\ ~paused /\ reset_seen) =>
            /\ shown = IntSeconds(now - start0 - paused_total)
            /\ paused_total = 0 => shown = IntSeconds(now - start0))
    /\ [][C16_ResetStep]_vars

\* a reset, then a pause of one second, and a running frame two seconds
\* after the reset: it shows 1
C16_Witness ==
    /\ pc = "sw_sleep"
    /\ reset_seen
    /\ ~paused
    /\ pause_start > start0
    /\ paused_total = UnitsPerSec
    /\ now = start0 + 2 * UnitsPerSec
    /\ shown = 1

\* the values of the countdown engine and of its frames
C17_Ranges ==
    /\ pc \in {"cd_poll", "cd_sleep", "cd_render", "cd_dec", "cd_except", "done"} =>
           (remaining >= -1 /\ remaining <= total_seconds)
    /\ nframes > 0 => (shown >= 0 /\ shown <= total_seconds)
    /\ progress.den > 0
    /\ progress.num >= 0
    /\ progress.num <= progress.den
    /\ (total_seconds = 0 /\ nframes > 0) => progress.num = progress.den

\* successive rendered values never increase and differ by at most 1
C17_RenderStep ==
    (pc = "cd_render" /\ pc' = "cd_dec" /\ nframes > 0) =>
        (shown' <= shown /\ shown - shown' <= 1)

\* C17 as stated: the ranges, the monotonicity, and for total = 0 exactly
\* one frame (00:00) is rendered and the countdown then reports done.
C17_ZeroTotalOneFrame ==
    /\ [](C17_Ranges)
    /\ [][C17_RenderStep]_vars
    /\ [](total_seconds = 0 =>
            /\ nframes <= 1
            /\ cd_result = "completed" => (nframes = 1 /\ shown = 0))

\* C17 amended: for total = 0 the first frame shows 00:00 and the countdown
\* reports done right after it unless that frame was rendered paused; every
\* further frame follows a paused frame and shows 00:00 again.
C17_CountdownRanges ==
    /\ [](C17_Ranges)
    /\ [][C17_RenderStep]_vars
    /\ [](total_seconds = 0 =>
            /\ nframes > 0 => shown = 0
            /\ cd_result = "completed" => nframes >= 1
            /\ (pc = "cd_poll" /\ nframes > 0) => paused
            /\ ~got_key => nframes <= 1)
    /\ [][(total_seconds = 0 /\ pc = "cd_render" /\ pc' = "cd_dec" /\ nframes > 0)
              => shown_paused]_vars

\* total 0, paused in the first tick and resumed in the second: two frames
C17_Witness ==
    /\ total_seconds = 0
    /\ pc = "done"
    /\ cd_result = "completed"
    /\ nframes = 2
    /\ progress = [num |-> 1, den |-> 1]
    /\ remaining = -1

\* C19: start_time <= now in every state, the displayed elapsed value is
\* never negative, and from one frame to the next it never decreases unless
\* the tick between them processed a reset.
C19_NoBackwardStep ==
    (pc = "sw_render" /\ pc' = "sw_sleep" /\ nframes > 0 /\ ~reset_tick) =>
        shown' >= shown

C19_ElapsedMonotone ==
    /\ [](start_time <= now)
    /\ [](elapsed >= 0)
    /\ [](nframes > 0 => shown >= 0)
    /\ [][C19_NoBackwardStep]_vars

\* the frame of a resume tick, one second of running and two of pause in
C19_Witness ==
    /\ pc = "sw_sleep"
    /\ ~paused
    /\ ~reset_seen
    /\ shown = 1
    /\ paused_total = 2 * UnitsPerSec
    /\ now = pause_start + paused_total
    /\ start_time = start0 + paused_total

\* positions of clock_mode and stopwatch_mode before and inside their loops
RunningPcs ==
    {"clk_clear", "clk_first", "clk_sleep", "clk_render",
     "sw_clear", "ih_init", "ih_enter_cbreak", "ih_enter_noecho", "sw_setup",
     "sw_poll", "sw_update", "sw_render", "sw_sleep"}

\* the countdown reports done only in a tick that ends not paused
C18_DoneStep ==
    (cd_result # "completed" /\ cd_result' = "completed") => (pc = "cd_dec" /\ ~paused)

\* C18: a countdown that is not interrupted and not paused forever
\* eventually reports done; a countdown reports done only in a tick in
\* which it is not paused; clock_mode and stopwatch_mode never report done
\* and leave their loops only on an interrupt.
C18_Termination ==
    /\ ([]<>(~paused)) =>
          ((pc = "cd_poll") ~> (cd_result = "completed" \/ sigint = "delivered"))
    /\ [][C18_DoneStep]_vars
    /\ [](mode \in {"clock", "stopwatch"} =>
            /\ cd_result = "none"
            /\ pc \in RunningPcs \/ sigint = "delivered")

\* a countdown that was paused, resumed and ran to completion
C18_Witness ==
    /\ mode = "countdown"
    /\ pc = "done"
    /\ sigint = "none"
    /\ cd_result = "completed"
    /\ got_key
    /\ nframes > total_seconds + 1

\* the characters of str that have a glyph, in order
KnownChars(str, isBold) ==
    SelectSeq(str, LAMBDA c : c \in DOMAIN (IF isBold THEN SEGMENTS_BOLD ELSE SEGMENTS))

\* width of the glyph of a known character
GlyphWidth(c, isBold) == Len((IF isBold THEN SEGMENTS_BOLD ELSE SEGMENTS)[c][1])

\* column before the glyph of the k-th known character
RECURSIVE GlyphOffset(_, _, _)
GlyphOffset(known, k, isBold) ==
    IF k = 1 THEN 0
    ELSE GlyphOffset(known, k - 1, isBold) + GlyphWidth(known[k - 1], isBold) + 1

\* C20: print_time builds exactly 4 rows of equal length; row i holds, for
\* every known character from left to right, row i of its glyph followed by
\* one separator column, and nothing else; a character without a glyph
\* contributes nothing, so "1x" gives the rows of "1".
C20_PrintTimeRows ==
    (mode = "print_time" /\ pc = "printed") =>
        LET isBold == args.bold
            segments == IF isBold THEN SEGMENTS_BOLD ELSE SEGMENTS
            known == KnownChars(time_str, isBold)
            width == GlyphOffset(known, Len(known) + 1, isBold)
        IN  /\ Len(lines) = 4
            /\ \A i \in 1..4 :
                 /\ Len(lines[i]) = Len(lines[1])
                 /\ Len(lines[i]) = width
                 /\ \A k \in 1..Len(known) :
                      LET off == GlyphOffset(known, k, isBold)
                          w == GlyphWidth(known[k], isBold)
                      IN  /\ SubSeq(lines[i], off + 1, off + w) = segments[known[k]][i]
                          /\ lines[i][off + w + 1] = " "
            /\ lines = print_time(known, isBold)
            /\ time_str = <<"1", "x">> => lines = print_time(<<"1">>, isBold)
            /\ known = <<>> => lines = [i \in 1..4 |-> <<>>]

\* "1x" in the bold style: the rows of the bold 1
C20_Witness ==
    /\ mode = "print_time"
    /\ pc = "printed"
    /\ args.bold
    /\ time_str = <<"1", "x">>
    /\ lines = [i \in 1..4 |-> <<" ", " ", " ", " ", " ", " ", "dv", " ">>]

====
